---- MODULE Spec2Model ----
(***************************************************************************)
(* Model of the pool allocator of memory_manager.c: the static pool state, *)
(* the two descriptor lists, the allocator mutex and the five public       *)
(* operations, each translated from its code.                              *)
(*                                                                         *)
(* Addresses are integers, NULL is 0.  A descriptor (MemBlock) is a record *)
(* [start, size]; a list of descriptors is a sequence in link order (the   *)
(* head of the C list is element 1).                                       *)
(*                                                                         *)
(* mem_alloc, mem_free and mem_deinit run between pthread_mutex_lock and   *)
(* pthread_mutex_unlock, so each is one step that is enabled when          *)
(* mem_mutex is free.  mem_resize is one step up to its return or up to    *)
(* its nested call of mem_alloc, and one step per nested call after that.  *)
(* Every malloc of a descriptor can return NULL.                           *)
(*                                                                         *)
(* mem_init takes no lock.  Spec takes it as one step; SpecInit takes it   *)
(* statement by statement between the steps of the other threads.          *)
(* SpecZero admits requests of size 0.  SpecBarrier is the barrier of      *)
(* barrier.c, which shares no state with the allocator.                    *)
(***************************************************************************)
EXTENDS Integers, Sequences, FiniteSets, TLC

\* ------------------------------------------------------------------ bounds
\* largest pool handed to mem_init
MaxPool == 4
\* largest size handed to mem_alloc / mem_resize
MaxReq == 2
\* number of client threads
NThreads == 2
\* number of MemBlock descriptors of the allocated list the platform malloc
\* can hold before it reports failure
MaxLive == 3

\* number of my_barrier_wait calls a thread makes
MaxRounds == 4

\* --------------------------------------------------------------- constants
NULL == 0
\* address the platform malloc returns for the pool buffer
PoolBase == 2
NoOwner == 0

Threads == 1..NThreads
\* pool sizes a client passes to mem_init (size >= 1)
InitSizes == {1, MaxPool}
\* request sizes of a client honouring "size > 0 is the caller's responsibility"
ReqSizes == 1..MaxReq
\* pointer values a client can pass: NULL, below the pool, inside, past the end
Ptrs == 0..(PoolBase + MaxPool)
\* addresses of pool bytes and the values a byte takes
Addrs == PoolBase..(PoolBase + MaxPool - 1)
Bytes == 0..1

VARIABLES
    memory_pool,     \* static char* memory_pool (NULL when not initialized)
    pool_size,       \* static size_t pool_size
    free_list,       \* static MemBlock* free_list, as a sequence
    allocated_list,  \* static MemBlock* allocated_list, as a sequence
    mem_mutex,       \* owner of mem_mutex, NoOwner when unlocked
    mem,             \* contents of the pool bytes
    pc,              \* per thread: position inside the allocator
    loc,             \* per thread: locals of a mem_resize in flight
    exited,          \* the process called exit(EXIT_FAILURE)
    last,            \* the step that produced the current state
    heap,            \* platform heap: pool buffers and MemBlocks malloc'ed and not freed
    barrier,         \* my_barrier_t: count and trip_count
    waiter           \* per thread: position inside my_barrier_wait and its rounds

vars == <<memory_pool, pool_size, free_list, allocated_list, mem_mutex, mem,
          pc, loc, exited, last, heap, barrier, waiter>>

\* ------------------------------------------------------------ list helpers
Blk(s, n) == [start |-> s, size |-> n]

RemoveAt(s, i) == SubSeq(s, 1, i - 1) \o SubSeq(s, i + 1, Len(s))

InsertAfter(s, k, b) == SubSeq(s, 1, k) \o <<b>> \o SubSeq(s, k + 1, Len(s))

\* FirstFit with the scan keeping the last block that fits instead of the first
RECURSIVE LastFit(_, _, _)
LastFit(fl, size, i) ==
    IF i > Len(fl) THEN 0
    ELSE LET later == LastFit(fl, size, i + 1) IN
         IF later # 0 THEN later
         ELSE IF fl[i].size >= size THEN i ELSE 0

\* FirstFit with the comparison written > instead of >=
RECURSIVE FirstFitStrict(_, _, _)
FirstFitStrict(fl, size, i) ==
    IF i > Len(fl) THEN 0
    ELSE IF fl[i].size > size THEN i
    ELSE FirstFitStrict(fl, size, i + 1)

\* while (current != NULL) { if (current->size >= size) ...; current = current->next; }
\* index of the block the scan of mem_alloc stops at, 0 when it runs off the list
RECURSIVE FirstFit(_, _, _)
FirstFit(fl, size, i) ==
    IF i > Len(fl) THEN 0
    ELSE IF fl[i].size >= size THEN i
    ELSE FirstFit(fl, size, i + 1)

\* FindStart accepting any address inside a block instead of its start only
RECURSIVE FindWithin(_, _, _)
FindWithin(al, ptr, i) ==
    IF i > Len(al) THEN 0
    ELSE IF al[i].start <= ptr /\ ptr < al[i].start + al[i].size THEN i
    ELSE FindWithin(al, ptr, i + 1)

\* while (current != NULL) { if (current->start == ptr) ...; current = current->next; }
RECURSIVE FindStart(_, _, _)
FindStart(al, ptr, i) ==
    IF i > Len(al) THEN 0
    ELSE IF al[i].start = ptr THEN i
    ELSE FindStart(al, ptr, i + 1)

\* InsertPos that walks to the tail whatever the start addresses
InsertPosTail(fl, b, k) == Len(fl)

\* while (fcurrent->next != NULL && fcurrent->next->start < new_free->start)
RECURSIVE InsertPos(_, _, _)
InsertPos(fl, b, k) ==
    IF k < Len(fl) /\ fl[k + 1].start < b.start
    THEN InsertPos(fl, b, k + 1)
    ELSE k

\* InsertFree without the ordered scan: the new block always becomes the head
InsertFreeHead(fl, b) == <<b>> \o fl

\* insertion of new_free into the free list (mem_free)
InsertFree(fl, b) ==
    IF Len(fl) = 0 \/ b.start < fl[1].start
    THEN <<b>> \o fl
    ELSE InsertAfter(fl, InsertPos(fl, b, 1), b)

\* Coalesce advancing merge_current also after a merge
RECURSIVE CoalesceAdvance(_, _)
CoalesceAdvance(fl, i) ==
    IF i >= Len(fl) THEN fl
    ELSE IF fl[i].start + fl[i].size = fl[i + 1].start
         THEN CoalesceAdvance([RemoveAt(fl, i + 1) EXCEPT
                           ![i] = Blk(fl[i].start, fl[i].size + fl[i + 1].size)], i + 1)
         ELSE CoalesceAdvance(fl, i + 1)

\* Coalesce with the merge loop left out
CoalesceNone(fl, i) == fl

\* the merge loop of mem_free, merge_current at index i
RECURSIVE Coalesce(_, _)
Coalesce(fl, i) ==
    IF i >= Len(fl) THEN fl
    ELSE IF fl[i].start + fl[i].size = fl[i + 1].start
         THEN Coalesce([RemoveAt(fl, i + 1) EXCEPT
                           ![i] = Blk(fl[i].start, fl[i].size + fl[i + 1].size)], i)
         ELSE Coalesce(fl, i + 1)

\* ------------------------------------------------- bodies of the operations
\* Each body maps the pool state to the state at the return statement and
\* names the exit path taken.  ok is the result of the body's malloc of a
\* MemBlock (TRUE: a descriptor, FALSE: NULL); the actions draw ok = FALSE
\* only on the paths that call malloc.

\* TakeBlock whose split shrinks the free block without moving its start
TakeBlockNoAdvance(fl, i, size) ==
    IF fl[i].size > size
    THEN [fl EXCEPT ![i] = Blk(fl[i].start, fl[i].size - size)]
    ELSE RemoveAt(fl, i)

\* TakeBlock whose exact fit leaves the emptied descriptor in the free list
TakeBlockKeepsEmpty(fl, i, size) ==
    [fl EXCEPT ![i] = Blk(fl[i].start + size, fl[i].size - size)]

\* state after the split / exact-fit branch of mem_alloc on block i
TakeBlock(fl, i, size) ==
    IF fl[i].size > size
    THEN [fl EXCEPT ![i] = Blk(fl[i].start + size, fl[i].size - size)]
    ELSE RemoveAt(fl, i)

\* mem_alloc between lock and unlock
AllocBody(mp, fl, al, size, ok) ==
    LET i == FirstFit(fl, size, 1) IN
    IF mp = NULL THEN [fl |-> fl, al |-> al, ret |-> NULL, path |-> "uninit"]
    ELSE IF i = 0 THEN [fl |-> fl, al |-> al, ret |-> NULL, path |-> "nofit"]
    ELSE IF ~ok THEN [fl |-> fl, al |-> al, ret |-> NULL, path |-> "nomem"]
    ELSE [fl |-> TakeBlock(fl, i, size),
          al |-> <<Blk(fl[i].start, size)>> \o al,
          ret |-> fl[i].start, path |-> "ok"]

\* FreeBody that leaves the descriptor linked in the allocated list
FreeBodyNoUnlink(mp, ps, fl, al, ptr, ok) ==
    LET j == FindStart(al, ptr, 1) IN
    IF ptr = NULL THEN [fl |-> fl, al |-> al, path |-> "null"]
    ELSE IF ptr < mp \/ ptr >= mp + ps
         THEN [fl |-> fl, al |-> al, path |-> "bounds"]
    ELSE IF j = 0 THEN [fl |-> fl, al |-> al, path |-> "notfound"]
    ELSE IF ~ok THEN [fl |-> fl, al |-> al, path |-> "nomem"]
    ELSE [fl |-> Coalesce(InsertFree(fl, Blk(ptr, al[j].size)), 1),
          al |-> al, path |-> "ok"]

\* mem_free, NULL check included
FreeBody(mp, ps, fl, al, ptr, ok) ==
    LET j == FindStart(al, ptr, 1) IN
    IF ptr = NULL THEN [fl |-> fl, al |-> al, path |-> "null"]
    ELSE IF ptr < mp \/ ptr >= mp + ps
         THEN [fl |-> fl, al |-> al, path |-> "bounds"]
    ELSE IF j = 0 THEN [fl |-> fl, al |-> al, path |-> "notfound"]
    ELSE IF ~ok THEN [fl |-> fl, al |-> RemoveAt(al, j), path |-> "nomem"]
    ELSE [fl |-> Coalesce(InsertFree(fl, Blk(ptr, al[j].size)), 1),
          al |-> RemoveAt(al, j), path |-> "ok"]

\* mem_alloc reaches its malloc of allocated_block: a block fits
AllocReserves(mp, fl, size) == mp # NULL /\ FirstFit(fl, size, 1) # 0

\* mem_free reaches its malloc of new_free: ptr is in bounds and found
FreeReserves(mp, ps, al, ptr) ==
    /\ ptr # NULL /\ ptr >= mp /\ ptr < mp + ps
    /\ FindStart(al, ptr, 1) # 0

\* ok is a result the malloc of allocated_block can have: NULL where it is
\* called, a descriptor while the platform heap has room for one more
\* allocated-list descriptor; where malloc is not called ok is TRUE
DescrMalloc(ok, called) ==
    IF called THEN ok => Len(allocated_list) < MaxLive ELSE ok

\* AllocDescr of an exact fit that unlinks current without free(current)
AllocDescrKeepsCurrent(mp, fl, size, ok) ==
    IF ok /\ AllocReserves(mp, fl, size) THEN 1 ELSE 0

\* MemBlocks mem_alloc reserves less those it releases: malloc of
\* allocated_block, free(current) on an exact fit
AllocDescr(mp, fl, size, ok) ==
    IF ~(ok /\ AllocReserves(mp, fl, size)) THEN 0
    ELSE IF fl[FirstFit(fl, size, 1)].size > size THEN 1
    ELSE 0

\* number of free(temp) calls of the merge loop of mem_free from index i
RECURSIVE MergeFrees(_, _)
MergeFrees(fl, i) ==
    IF i >= Len(fl) THEN 0
    ELSE IF fl[i].start + fl[i].size = fl[i + 1].start
         THEN 1 + MergeFrees([RemoveAt(fl, i + 1) EXCEPT
                           ![i] = Blk(fl[i].start, fl[i].size + fl[i + 1].size)], i)
         ELSE MergeFrees(fl, i + 1)

\* MemBlocks mem_free reserves less those it releases: malloc of new_free,
\* free(current) on both branches, free(temp) per merge
FreeDescr(mp, ps, fl, al, ptr, ok) ==
    IF ~FreeReserves(mp, ps, al, ptr) THEN 0
    ELSE IF ~ok THEN 0 - 1
    ELSE 0 - MergeFrees(InsertFree(fl, Blk(ptr, LET j == FindStart(al, ptr, 1)
                                                IN al[j].size)), 1)

\* the heap after the loops of mem_deinit freed n MemBlocks, and the pool
DeinitHeap(h, mp, n) ==
    [pools |-> h.pools \ {mp}, descr |-> h.descr - n]

\* memcpy(dst, src, n) on the pool bytes; bytes outside the buffer are not modelled
MemCpy(m, dst, src, n) ==
    [a \in Addrs |->
        IF a >= dst /\ a < dst + n /\ (src + (a - dst)) \in Addrs
        THEN m[src + (a - dst)] ELSE m[a]]

\* ------------------------------------------------------------------- Init
NoCall == [op |-> "none", ptr |-> NULL, size |-> 0, ret |-> NULL,
           path |-> "none", mp |-> NULL, ps |-> 0, fl |-> <<>>, al |-> <<>>]

NoLoc == [ptr |-> NULL, size |-> 0, old |-> 0, new |-> NULL,
          fl |-> <<>>, al |-> <<>>]

\* a thread outside my_barrier_wait that has made no call yet
NoWait == [pc |-> "out", entered |-> 0, returned |-> 0]

Init ==
    /\ memory_pool = NULL
    /\ pool_size = 0
    /\ free_list = <<>>
    /\ allocated_list = <<>>
    /\ mem_mutex = NoOwner
    /\ mem = [a \in Addrs |-> 0]
    /\ pc = [t \in Threads |-> "idle"]
    /\ loc = [t \in Threads |-> NoLoc]
    /\ exited = FALSE
    /\ last = NoCall
    /\ heap = [pools |-> {}, descr |-> 0]
    /\ barrier = [count |-> 0, trip_count |-> 0, ready |-> FALSE]
    /\ waiter = [t \in Threads |-> NoWait]

Call(op, t, ptr, size, ret, path) ==
    [op |-> op, ptr |-> ptr, size |-> size, ret |-> ret, path |-> path,
     mp |-> memory_pool, ps |-> pool_size,
     fl |-> free_list, al |-> allocated_list]

\* ---------------------------------------------------------------- actions
\* a second mem_init re-seeds the pool
NeverInitialized(mp) == FALSE

\* if (memory_pool != NULL): the pool is already initialized
AlreadyInitialized(mp) == mp # NULL

\* the free list of a pool without its initial block
SeedEmpty(base, size) == <<>>

\* free_list = one descriptor {memory_pool, size, next = NULL}
SeedFreeList(base, size) == <<Blk(base, size)>>

\* mem_init(size); fail names the malloc that returns NULL, if any
mem_init(t, size, fail) ==
    /\ ~exited /\ pc[t] = "idle"
    /\ fail # "none" => memory_pool = NULL
    /\ IF AlreadyInitialized(memory_pool)
       THEN /\ last' = Call("init", t, NULL, size, NULL, "already")
            /\ UNCHANGED <<memory_pool, pool_size, free_list, allocated_list,
                           exited, heap>>
       ELSE IF fail = "pool"
       THEN /\ exited' = TRUE
            /\ last' = Call("init", t, NULL, size, NULL, "exit")
            /\ UNCHANGED <<memory_pool, pool_size, free_list, allocated_list, heap>>
       ELSE IF fail = "list"
       THEN /\ exited' = TRUE
            /\ memory_pool' = NULL
            /\ pool_size' = size
            /\ free_list' = <<>>
            /\ last' = Call("init", t, NULL, size, NULL, "exit")
            /\ UNCHANGED <<allocated_list, heap>>
       ELSE /\ memory_pool' = PoolBase
            /\ pool_size' = size
            /\ free_list' = SeedFreeList(PoolBase, size)
            /\ allocated_list' = <<>>
            /\ last' = Call("init", t, NULL, size, NULL, "ok")
            /\ heap' = [pools |-> heap.pools \cup {PoolBase},
                        descr |-> heap.descr + 1]
            /\ UNCHANGED exited
    /\ UNCHANGED <<mem_mutex, mem, pc, loc, barrier, waiter>>

\* ---- mem_init statement by statement: it never locks mem_mutex, so the
\* ---- steps of the other threads fall between its statements
\* addresses the platform malloc can return for a pool buffer
PoolBases == {PoolBase + (i - 1) * (MaxPool + 1) : i \in 1..NThreads}

\* malloc(size) for a pool: a buffer not in use, NULL when there is none
PoolMalloc(h) ==
    IF PoolBases \ h.pools = {} THEN NULL
    ELSE CHOOSE b \in PoolBases \ h.pools : \A c \in PoolBases \ h.pools : b <= c

\* thread t is between two statements of mem_init
InInit(t) == pc[t] \in {"init_pool", "init_size", "init_list", "init_done"}

\* if (memory_pool != NULL) { ...; return; }
init_check(t, size) ==
    /\ ~exited /\ pc[t] = "idle"
    /\ IF AlreadyInitialized(memory_pool)
       THEN /\ last' = Call("init", t, NULL, size, NULL, "already")
            /\ UNCHANGED <<pc, loc>>
       ELSE /\ pc' = [pc EXCEPT ![t] = "init_pool"]
            /\ loc' = [loc EXCEPT ![t].size = size]
            /\ last' = Call("init:check", t, NULL, size, NULL, "uninit")
    /\ UNCHANGED <<memory_pool, pool_size, free_list, allocated_list, mem_mutex,
                   mem, exited, heap, barrier, waiter>>

\* memory_pool = (char*)malloc(size); if (memory_pool == NULL) exit(EXIT_FAILURE);
init_pool(t, ok) ==
    /\ ~exited /\ pc[t] = "init_pool"
    /\ ok => PoolMalloc(heap) # NULL
    /\ IF ok
       THEN /\ memory_pool' = PoolMalloc(heap)
            /\ heap' = [heap EXCEPT !.pools = @ \cup {PoolMalloc(heap)}]
            /\ pc' = [pc EXCEPT ![t] = "init_size"]
            /\ last' = Call("init:pool", t, NULL, loc[t].size, PoolMalloc(heap), "ok")
            /\ UNCHANGED exited
       ELSE /\ memory_pool' = NULL
            /\ exited' = TRUE
            /\ last' = Call("init", t, NULL, loc[t].size, NULL, "exit")
            /\ UNCHANGED <<heap, pc>>
    /\ UNCHANGED <<pool_size, free_list, allocated_list, mem_mutex, mem, loc,
                   barrier, waiter>>

\* pool_size = size;
init_size(t) ==
    /\ ~exited /\ pc[t] = "init_size"
    /\ pool_size' = loc[t].size
    /\ pc' = [pc EXCEPT ![t] = "init_list"]
    /\ last' = Call("init:size", t, NULL, loc[t].size, NULL, "ok")
    /\ UNCHANGED <<memory_pool, free_list, allocated_list, mem_mutex, mem, loc,
                   exited, heap, barrier, waiter>>

\* free_list = malloc(sizeof(MemBlock)); on NULL free(memory_pool), exit;
\* else start = memory_pool, size = size, next = NULL.  The three stores to
\* the new descriptor are taken together with the store to free_list.
init_list(t, ok) ==
    /\ ~exited /\ pc[t] = "init_list"
    /\ ok => heap.descr <= MaxLive
    /\ IF ok
       THEN /\ free_list' = SeedFreeList(memory_pool, loc[t].size)
            /\ heap' = [heap EXCEPT !.descr = @ + 1]
            /\ pc' = [pc EXCEPT ![t] = "init_done"]
            /\ last' = Call("init:list", t, NULL, loc[t].size, NULL, "ok")
            /\ UNCHANGED <<memory_pool, exited>>
       ELSE /\ free_list' = <<>>
            /\ heap' = [heap EXCEPT !.pools = @ \ {memory_pool}]
            /\ memory_pool' = NULL
            /\ exited' = TRUE
            /\ last' = Call("init", t, NULL, loc[t].size, NULL, "exit")
            /\ UNCHANGED pc
    /\ UNCHANGED <<pool_size, allocated_list, mem_mutex, mem, loc, barrier, waiter>>

\* allocated_list = NULL; and the return
init_done(t) ==
    /\ ~exited /\ pc[t] = "init_done"
    /\ allocated_list' = <<>>
    /\ pc' = [pc EXCEPT ![t] = "idle"]
    /\ loc' = [loc EXCEPT ![t] = NoLoc]
    /\ last' = Call("init", t, NULL, loc[t].size, NULL, "ok")
    /\ UNCHANGED <<memory_pool, pool_size, free_list, mem_mutex, mem, exited,
                   heap, barrier, waiter>>

\* mem_alloc(size): lock, body, unlock on the exit path taken
mem_alloc(t, size, ok) ==
    /\ ~exited /\ pc[t] = "idle"
    /\ mem_mutex = NoOwner
    /\ DescrMalloc(ok, AllocReserves(memory_pool, free_list, size))
    /\ LET r == AllocBody(memory_pool, free_list, allocated_list, size, ok) IN
       /\ free_list' = r.fl
       /\ allocated_list' = r.al
       /\ last' = Call("alloc", t, NULL, size, r.ret, r.path)
    /\ heap' = [heap EXCEPT !.descr = @ + AllocDescr(memory_pool, free_list, size, ok)]
    /\ mem_mutex' = NoOwner
    /\ UNCHANGED <<memory_pool, pool_size, mem, pc, loc, exited, barrier, waiter>>

\* mem_free(ptr): the NULL check precedes the lock
mem_free(t, ptr, ok) ==
    /\ ~exited /\ pc[t] = "idle"
    /\ ptr = NULL \/ mem_mutex = NoOwner
    /\ ~ok => FreeReserves(memory_pool, pool_size, allocated_list, ptr)
    /\ LET r == FreeBody(memory_pool, pool_size, free_list, allocated_list, ptr, ok) IN
       /\ free_list' = r.fl
       /\ allocated_list' = r.al
       /\ last' = Call("free", t, ptr, 0, NULL, r.path)
    /\ heap' = [heap EXCEPT !.descr = @ + FreeDescr(memory_pool, pool_size, free_list,
                                                     allocated_list, ptr, ok)]
    /\ mem_mutex' = IF ptr = NULL THEN mem_mutex ELSE NoOwner
    /\ UNCHANGED <<memory_pool, pool_size, mem, pc, loc, exited, barrier, waiter>>

\* mem_deinit() without the release of the free list
DeinitKeepsFreeList(t) ==
    /\ ~exited /\ pc[t] = "idle"
    /\ mem_mutex = NoOwner
    /\ memory_pool' = NULL
    /\ pool_size' = 0
    /\ allocated_list' = <<>>
    /\ mem_mutex' = NoOwner
    /\ last' = Call("deinit", t, NULL, 0, NULL, "ok")
    /\ heap' = DeinitHeap(heap, memory_pool, Len(allocated_list))
    /\ UNCHANGED <<free_list, mem, pc, loc, exited, barrier, waiter>>

\* mem_deinit() without the release of the allocated list
DeinitKeepsAllocated(t) ==
    /\ ~exited /\ pc[t] = "idle"
    /\ mem_mutex = NoOwner
    /\ memory_pool' = NULL
    /\ pool_size' = 0
    /\ free_list' = <<>>
    /\ mem_mutex' = NoOwner
    /\ last' = Call("deinit", t, NULL, 0, NULL, "ok")
    /\ heap' = DeinitHeap(heap, memory_pool, Len(free_list))
    /\ UNCHANGED <<allocated_list, mem, pc, loc, exited, barrier, waiter>>

\* mem_deinit()
mem_deinit(t) ==
    /\ ~exited /\ pc[t] = "idle"
    /\ mem_mutex = NoOwner
    /\ memory_pool' = NULL
    /\ pool_size' = 0
    /\ free_list' = <<>>
    /\ allocated_list' = <<>>
    /\ mem_mutex' = NoOwner
    /\ last' = Call("deinit", t, NULL, 0, NULL, "ok")
    /\ heap' = DeinitHeap(heap, memory_pool, Len(free_list) + Len(allocated_list))
    /\ UNCHANGED <<mem, pc, loc, exited, barrier, waiter>>

\* size 0 is searched for like any other size
ResizeBranchNoFree(ptr, size) == IF ptr = NULL THEN "alloc" ELSE "search"

\* the checks mem_resize makes before it locks: ptr == NULL, then size == 0
ResizeBranch(ptr, size) ==
    IF ptr = NULL THEN "alloc" ELSE IF size = 0 THEN "free" ELSE "search"

\* a block of exactly the requested size is moved
ResizeFitsStrict(cur, size) == cur > size

\* if (current->size >= size): the block is kept where it is
ResizeFits(cur, size) == cur >= size

\* mem_resize(ptr, size) up to its return, or up to the call of mem_alloc on
\* the growth branch, which it makes with mem_mutex held
mem_resize(t, ptr, size, ok) ==
    /\ ~exited /\ pc[t] = "idle"
    /\ IF ptr = NULL
       THEN DescrMalloc(ok, AllocReserves(memory_pool, free_list, size))
       ELSE ~ok => /\ size = 0
                   /\ FreeReserves(memory_pool, pool_size, allocated_list, ptr)
    /\ IF ResizeBranch(ptr, size) = "alloc"
       THEN \* return mem_alloc(size);
            /\ mem_mutex = NoOwner
            /\ LET r == AllocBody(memory_pool, free_list, allocated_list, size, ok) IN
               /\ free_list' = r.fl
               /\ allocated_list' = r.al
               /\ last' = Call("resize", t, ptr, size, r.ret, r.path)
            /\ heap' = [heap EXCEPT !.descr =
                           @ + AllocDescr(memory_pool, free_list, size, ok)]
            /\ mem_mutex' = NoOwner
            /\ UNCHANGED <<pc, loc>>
       ELSE IF ResizeBranch(ptr, size) = "free"
       THEN \* mem_free(ptr); return NULL;
            /\ mem_mutex = NoOwner
            /\ LET r == FreeBody(memory_pool, pool_size, free_list, allocated_list, ptr, ok) IN
               /\ free_list' = r.fl
               /\ allocated_list' = r.al
               /\ last' = Call("resize", t, ptr, size, NULL, r.path)
            /\ heap' = [heap EXCEPT !.descr =
                           @ + FreeDescr(memory_pool, pool_size, free_list,
                                         allocated_list, ptr, ok)]
            /\ mem_mutex' = NoOwner
            /\ UNCHANGED <<pc, loc>>
       ELSE /\ mem_mutex = NoOwner
            /\ LET j == FindStart(allocated_list, ptr, 1) IN
               IF j = 0
               THEN /\ last' = Call("resize", t, ptr, size, NULL, "notfound")
                    /\ mem_mutex' = NoOwner
                    /\ UNCHANGED <<pc, loc>>
               ELSE IF ResizeFits(allocated_list[j].size, size)
               THEN /\ last' = Call("resize", t, ptr, size, ptr, "fits")
                    /\ mem_mutex' = NoOwner
                    /\ UNCHANGED <<pc, loc>>
               ELSE /\ last' = Call("resize:grow", t, ptr, size, NULL, "locked")
                    /\ mem_mutex' = t
                    /\ pc' = [pc EXCEPT ![t] = "resize_alloc"]
                    /\ loc' = [loc EXCEPT ![t] =
                                 [ptr |-> ptr, size |-> size,
                                  old |-> allocated_list[j].size, new |-> NULL,
                                  fl |-> free_list, al |-> allocated_list]]
            /\ UNCHANGED <<free_list, allocated_list, heap>>
    /\ UNCHANGED <<memory_pool, pool_size, mem, exited, barrier, waiter>>

\* pthread_mutex_lock(&mem_mutex) by the thread that already owns mem_mutex.
\* mem_mutex is a default mutex (PTHREAD_MUTEX_INITIALIZER): relocking it is
\* undefined.  The outcomes are that the thread blocks forever (a normal
\* mutex) or that the lock lets its owner through and stays held until the
\* owner's last unlock (a recursive or elided lock).
RelockOutcomes == {"deadlock", "proceed"}

\* if (new_ptr == NULL) return NULL; without the unlock
resize_allocKeepsLock(t, relock, ok) ==
    /\ ~exited /\ pc[t] = "resize_alloc"
    /\ mem_mutex = t
    /\ DescrMalloc(ok, /\ relock = "proceed"
                       /\ AllocReserves(memory_pool, free_list, loc[t].size))
    /\ IF relock = "deadlock"
       THEN /\ pc' = [pc EXCEPT ![t] = "blocked"]
            /\ last' = Call("resize:alloc", t, loc[t].ptr, loc[t].size, NULL, "deadlock")
            /\ UNCHANGED <<free_list, allocated_list, mem_mutex, loc, heap>>
       ELSE LET r == AllocBody(memory_pool, free_list, allocated_list, loc[t].size, ok) IN
            /\ free_list' = r.fl
            /\ allocated_list' = r.al
            /\ heap' = [heap EXCEPT !.descr =
                           @ + AllocDescr(memory_pool, free_list, loc[t].size, ok)]
            /\ IF r.ret = NULL
               THEN /\ mem_mutex' = t
                    /\ pc' = [pc EXCEPT ![t] = "idle"]
                    /\ loc' = [loc EXCEPT ![t] = NoLoc]
                    /\ last' = [Call("resize", t, loc[t].ptr, loc[t].size, NULL, r.path)
                                  EXCEPT !.fl = loc[t].fl, !.al = loc[t].al]
               ELSE /\ mem_mutex' = t
                    /\ pc' = [pc EXCEPT ![t] = "resize_copy"]
                    /\ loc' = [loc EXCEPT ![t].new = r.ret]
                    /\ last' = Call("resize:alloc", t, loc[t].ptr, loc[t].size, r.ret, r.path)
    /\ UNCHANGED <<memory_pool, pool_size, mem, exited, barrier, waiter>>

\* void* new_ptr = mem_alloc(size); if (new_ptr == NULL) { unlock; return NULL; }
resize_alloc(t, relock, ok) ==
    /\ ~exited /\ pc[t] = "resize_alloc"
    /\ mem_mutex = t
    /\ DescrMalloc(ok, /\ relock = "proceed"
                       /\ AllocReserves(memory_pool, free_list, loc[t].size))
    /\ IF relock = "deadlock"
       THEN /\ pc' = [pc EXCEPT ![t] = "blocked"]
            /\ last' = Call("resize:alloc", t, loc[t].ptr, loc[t].size, NULL, "deadlock")
            /\ UNCHANGED <<free_list, allocated_list, mem_mutex, loc, heap>>
       ELSE LET r == AllocBody(memory_pool, free_list, allocated_list, loc[t].size, ok) IN
            /\ free_list' = r.fl
            /\ allocated_list' = r.al
            /\ heap' = [heap EXCEPT !.descr =
                           @ + AllocDescr(memory_pool, free_list, loc[t].size, ok)]
            /\ IF r.ret = NULL
               THEN /\ mem_mutex' = NoOwner
                    /\ pc' = [pc EXCEPT ![t] = "idle"]
                    /\ loc' = [loc EXCEPT ![t] = NoLoc]
                    /\ last' = [Call("resize", t, loc[t].ptr, loc[t].size, NULL, r.path)
                                  EXCEPT !.fl = loc[t].fl, !.al = loc[t].al]
               ELSE /\ mem_mutex' = t
                    /\ pc' = [pc EXCEPT ![t] = "resize_copy"]
                    /\ loc' = [loc EXCEPT ![t].new = r.ret]
                    /\ last' = Call("resize:alloc", t, loc[t].ptr, loc[t].size, r.ret, r.path)
    /\ UNCHANGED <<memory_pool, pool_size, mem, exited, barrier, waiter>>

\* memcpy(new_ptr, ptr, current->size);
resize_copy(t) ==
    /\ ~exited /\ pc[t] = "resize_copy"
    /\ mem_mutex = t
    /\ mem' = MemCpy(mem, loc[t].new, loc[t].ptr, loc[t].old)
    /\ pc' = [pc EXCEPT ![t] = "resize_free"]
    /\ last' = Call("resize:copy", t, loc[t].ptr, loc[t].size, loc[t].new, "copied")
    /\ UNCHANGED <<memory_pool, pool_size, free_list, allocated_list, mem_mutex,
                   loc, exited, heap, barrier, waiter>>

\* mem_free(ptr); pthread_mutex_unlock(&mem_mutex); return new_ptr;
resize_free(t, relock, ok) ==
    /\ ~exited /\ pc[t] = "resize_free"
    /\ mem_mutex = t
    /\ ~ok => /\ relock = "proceed"
              /\ FreeReserves(memory_pool, pool_size, allocated_list, loc[t].ptr)
    /\ IF relock = "deadlock"
       THEN /\ pc' = [pc EXCEPT ![t] = "blocked"]
            /\ last' = Call("resize:free", t, loc[t].ptr, loc[t].size, NULL, "deadlock")
            /\ UNCHANGED <<free_list, allocated_list, mem_mutex, loc, heap>>
       ELSE LET r == FreeBody(memory_pool, pool_size, free_list, allocated_list,
                              loc[t].ptr, ok) IN
            /\ free_list' = r.fl
            /\ allocated_list' = r.al
            /\ heap' = [heap EXCEPT !.descr =
                           @ + FreeDescr(memory_pool, pool_size, free_list,
                                         allocated_list, loc[t].ptr, ok)]
            /\ mem_mutex' = NoOwner
            /\ pc' = [pc EXCEPT ![t] = "idle"]
            /\ loc' = [loc EXCEPT ![t] = NoLoc]
            /\ last' = [Call("resize", t, loc[t].ptr, loc[t].size, loc[t].new,
                             IF r.path = "ok" THEN "moved" ELSE "moved_" \o r.path)
                          EXCEPT !.fl = loc[t].fl, !.al = loc[t].al]
    /\ UNCHANGED <<memory_pool, pool_size, mem, exited, barrier, waiter>>

\* a client stores byte v at address a of a live block; the blocks a
\* mem_resize in flight reads and writes are left to that call
store(t, a, v) ==
    /\ ~exited /\ pc[t] = "idle"
    /\ \E i \in 1..Len(allocated_list) :
          a >= allocated_list[i].start
          /\ a < allocated_list[i].start + allocated_list[i].size
    /\ \A u \in Threads : pc[u] = "idle"
    /\ mem[a] # v
    /\ mem' = [mem EXCEPT ![a] = v]
    /\ last' = Call("store", t, a, v, NULL, "ok")
    /\ UNCHANGED <<memory_pool, pool_size, free_list, allocated_list, mem_mutex,
                   pc, loc, exited, heap, barrier, waiter>>

\* ------------------------------------------------------------ barrier.c
\* The mutex of the barrier is held from the lock to the unlock or to the
\* pthread_cond_wait that releases it, so each such stretch is one step.
allocvars == <<memory_pool, pool_size, free_list, allocated_list, mem_mutex,
               mem, pc, loc, exited, last, heap>>

\* my_barrier_init(barrier, count), called once before the threads start;
\* ok is the result of pthread_mutex_init and pthread_cond_init
my_barrier_init(count, ok) ==
    /\ ~barrier.ready /\ barrier.trip_count = 0
    /\ IF count = 0
       THEN UNCHANGED barrier
       ELSE barrier' = [count |-> 0, trip_count |-> count, ready |-> ok]
    /\ UNCHANGED <<allocvars, waiter>>

\* my_barrier_wait up to its return or its pthread_cond_wait: the last
\* thread of a round resets count and broadcasts, the others wait
barrier_enter(t) ==
    /\ barrier.ready
    /\ waiter[t].pc = "out" /\ waiter[t].entered < MaxRounds
    /\ IF barrier.count + 1 >= barrier.trip_count
       THEN /\ barrier' = [barrier EXCEPT !.count = 0]
            /\ waiter' = [u \in Threads |->
                             IF u = t
                             THEN [waiter[u] EXCEPT !.entered = @ + 1,
                                                    !.returned = @ + 1]
                             ELSE IF waiter[u].pc = "waiting"
                             THEN [waiter[u] EXCEPT !.pc = "woken"]
                             ELSE waiter[u]]
       ELSE /\ barrier' = [barrier EXCEPT !.count = @ + 1]
            /\ waiter' = [waiter EXCEPT ![t].entered = @ + 1,
                                        ![t].pc = "waiting"]
    /\ UNCHANGED allocvars

\* pthread_cond_wait returns without a broadcast.  POSIX lets the call
\* return spuriously; my_barrier_wait does not test a predicate again.
barrier_spurious(t) ==
    /\ waiter[t].pc = "waiting"
    /\ waiter' = [waiter EXCEPT ![t].pc = "woken"]
    /\ UNCHANGED <<allocvars, barrier>>

\* pthread_cond_wait returned with the mutex; unlock and return 0
barrier_return(t) ==
    /\ waiter[t].pc = "woken"
    /\ waiter' = [waiter EXCEPT ![t].pc = "out", ![t].returned = @ + 1]
    /\ UNCHANGED <<allocvars, barrier>>

NextBarrier ==
    \/ \E count \in 0..NThreads, ok \in BOOLEAN : my_barrier_init(count, ok)
    \/ \E t \in Threads : barrier_enter(t)
    \/ \E t \in Threads : barrier_spurious(t)
    \/ \E t \in Threads : barrier_return(t)

SpecBarrier == Init /\ [][NextBarrier]_vars

\* the calls of the clients, with pool sizes drawn from pools and request
\* sizes drawn from sizes
Calls(pools, sizes) ==
    \/ \E t \in Threads, size \in pools, fail \in {"none", "pool", "list"} :
          mem_init(t, size, fail)
    \/ \E t \in Threads, size \in sizes, ok \in BOOLEAN : mem_alloc(t, size, ok)
    \/ \E t \in Threads, ptr \in Ptrs, ok \in BOOLEAN : mem_free(t, ptr, ok)
    \/ \E t \in Threads, ptr \in Ptrs, size \in sizes \cup {0}, ok \in BOOLEAN :
          \* resize(NULL, size) is an alloc(size): its size is a request size
          /\ ptr = NULL => size \in sizes
          /\ mem_resize(t, ptr, size, ok)
    \/ \E t \in Threads, relock \in RelockOutcomes, ok \in BOOLEAN :
          resize_alloc(t, relock, ok)
    \/ \E t \in Threads : resize_copy(t)
    \/ \E t \in Threads, relock \in RelockOutcomes, ok \in BOOLEAN :
          resize_free(t, relock, ok)
    \/ \E t \in Threads : mem_deinit(t)

Next == Calls(InitSizes, ReqSizes)

Spec == Init /\ [][Next]_vars

\* the steps of thread t inside a call of mem_resize that has reached its
\* growth branch
InCall(t) ==
    \/ \E relock \in RelockOutcomes, ok \in BOOLEAN : resize_alloc(t, relock, ok)
    \/ resize_copy(t)
    \/ \E relock \in RelockOutcomes, ok \in BOOLEAN : resize_free(t, relock, ok)

\* a thread inside a call is a running pthread: the scheduler lets it take
\* its next step
SpecFair == Spec /\ \A t \in Threads : WF_vars(InCall(t))

\* mem_init statement by statement, with the locked operations of the other
\* threads between its statements; pools of 2 bytes, requests of 1 byte
NextInit ==
    \/ \E t \in Threads : init_check(t, 2)
    \/ \E t \in Threads, ok \in BOOLEAN : init_pool(t, ok)
    \/ \E t \in Threads : init_size(t)
    \/ \E t \in Threads, ok \in BOOLEAN : init_list(t, ok)
    \/ \E t \in Threads : init_done(t)
    \/ \E t \in Threads, ok \in BOOLEAN : mem_alloc(t, 1, ok)
    \/ \E t \in Threads, b \in PoolBases, k \in 0..1, ok \in BOOLEAN :
          mem_free(t, b + k, ok)
    \/ \E t \in Threads : mem_deinit(t)

SpecInit == Init /\ [][NextInit]_vars

\* with requests of size 0, on pools of 2 bytes
NextZero == Calls({2}, 0..1)

SpecZero == Init /\ [][NextZero]_vars

\* with the stores of the clients to the bytes of their blocks
NextData ==
    \/ Calls({MaxPool - 1}, ReqSizes)
    \/ \E t \in Threads, a \in Addrs, v \in Bytes : store(t, a, v)

SpecData == Init /\ [][NextData]_vars

\* ------------------------------------------------------------- properties
\* bytes described by a descriptor
Range(b) == b.start..(b.start + b.size - 1)

\* no operation is in flight
Quiescent == \A t \in Threads : pc[t] = "idle"

Active == memory_pool # NULL

\* the ranges of a sequence of descriptors are pairwise disjoint
Disjoint(bs) ==
    \A i, j \in 1..Len(bs) : i < j => Range(bs[i]) \cap Range(bs[j]) = {}

\* the ranges of a sequence of descriptors cover exactly [base, base + size)
Covers(bs, base, size) ==
    UNION {Range(bs[i]) : i \in 1..Len(bs)} = base..(base + size - 1)

NoAdjacentFree(fl) ==
    \A i, j \in 1..Len(fl) : i # j => fl[i].start + fl[i].size # fl[j].start

\* blocks of fl that can serve a request of size
Fitting(fl, size) == {i \in 1..Len(fl) : fl[i].size >= size}

SumSize(bs) ==
    LET RECURSIVE Sum(_)
        Sum(i) == IF i = 0 THEN 0 ELSE bs[i].size + Sum(i - 1)
    IN Sum(Len(bs))

\* C1: while the pool is Active, at every point where no operation is in
\* flight, the ranges of the free-list and allocated-list blocks are pairwise
\* disjoint and their union is exactly [pool_base, pool_base + pool_size).
PartitionInvariant ==
    (Active /\ Quiescent) =>
        /\ Disjoint(free_list \o allocated_list)
        /\ Covers(free_list \o allocated_list, memory_pool, pool_size)

AllocIsFirstFit ==
    (last.op = "alloc" /\ last.path = "ok") =>
        /\ Fitting(last.fl, last.size) # {}
        /\ \E i \in Fitting(last.fl, last.size) :
              /\ last.ret = last.fl[i].start
              /\ \A j \in Fitting(last.fl, last.size) :
                    last.fl[i].start <= last.fl[j].start

\* an alloc that took a block although a later block fitted more tightly
AllocSkippedTighterBlock ==
    /\ last.op = "alloc" /\ last.path = "ok"
    /\ \E i, j \in Fitting(last.fl, last.size) :
          /\ last.ret = last.fl[i].start
          /\ last.fl[j].start > last.fl[i].start
          /\ last.fl[j].size < last.fl[i].size

\* C4: in the Active state alloc(n) returns null exactly when no single free
\* block has size >= n or the descriptor reservation fails, whatever the total
\* of free bytes; a failed alloc leaves both lists unchanged.
AllocFailsOnlyWithoutFit ==
    (last.op = "alloc" /\ Active) =>
        /\ last.ret = NULL <=>
              (Fitting(last.fl, last.size) = {} \/ last.path = "nomem")
        /\ last.path = "nomem" => Fitting(last.fl, last.size) # {}
        /\ last.ret = NULL =>
              (free_list = last.fl /\ allocated_list = last.al)

\* an alloc that failed for lack of a single fitting block while the free
\* bytes together would have sufficed
AllocFailedFragmented ==
    /\ last.op = "alloc" /\ Active
    /\ last.ret = NULL /\ last.path = "nofit"
    /\ SumSize(free_list) >= last.size

\* the exhaustion example: two allocs took the whole pool and the next alloc
\* of one byte failed
AllocFailedExhausted ==
    /\ last.op = "alloc" /\ Active
    /\ last.size = 1 /\ last.ret = NULL /\ last.path = "nofit"
    /\ free_list = <<>>
    /\ Len(allocated_list) = 2
    /\ SumSize(allocated_list) = pool_size

\* C5: the range returned by a successful alloc(n) is disjoint from the range
\* of every other live allocation and from every free-list range, whichever
\* thread issued it.
AllocRangeDisjoint ==
    (last.op \in {"alloc", "resize:alloc"} /\ last.path = "ok") =>
        /\ allocated_list # <<>>
        /\ allocated_list[1] = Blk(last.ret, last.size)
        /\ \A i \in 2..Len(allocated_list) :
              Range(allocated_list[1]) \cap Range(allocated_list[i]) = {}
        /\ \A i \in 1..Len(free_list) :
              Range(allocated_list[1]) \cap Range(free_list[i]) = {}

\* an alloc next to live blocks and a free remainder
AllocAmongLiveBlocks ==
    /\ last.op = "alloc" /\ last.path = "ok"
    /\ Len(allocated_list) >= 3
    /\ free_list # <<>>

\* the free-list invariants of the data model
FreeListInvariants(fl) ==
    /\ NoAdjacentFree(fl)
    /\ \A i \in 1..(Len(fl) - 1) : fl[i].start < fl[i + 1].start

FreeThree(fl, al, p1, p2, p3) ==
    LET r1 == FreeBody(memory_pool, pool_size, fl, al, p1, TRUE)
        r2 == FreeBody(memory_pool, pool_size, r1.fl, r1.al, p2, TRUE)
        r3 == FreeBody(memory_pool, pool_size, r2.fl, r2.al, p3, TRUE)
    IN r3.fl

\* live blocks a, b, c of al lie one after the other in the pool
AdjacentTriple(al, a, b, c) ==
    /\ al[a].start + al[a].size = al[b].start
    /\ al[b].start + al[b].size = al[c].start

\* C7: when three address-adjacent allocated blocks are all freed, each of
\* the six orders of the frees ends with exactly one free block covering the
\* three, merged with any free neighbour, and all orders end with the same
\* free list.
FreeOrderIrrelevant ==
    \A a, b, c \in 1..Len(allocated_list) :
        AdjacentTriple(allocated_list, a, b, c) =>
            LET pa == allocated_list[a].start
                pb == allocated_list[b].start
                pc3 == allocated_list[c].start
                hi == allocated_list[c].start + allocated_list[c].size
                ref == FreeThree(free_list, allocated_list, pa, pb, pc3)
                Good(fl) ==
                    /\ fl = ref
                    /\ Cardinality({i \in 1..Len(fl) :
                           Range(fl[i]) \cap (pa..(hi - 1)) # {}}) = 1
                    /\ \E i \in 1..Len(fl) :
                           fl[i].start <= pa /\ fl[i].start + fl[i].size >= hi
                    /\ NoAdjacentFree(fl)
            IN /\ Good(FreeThree(free_list, allocated_list, pa, pb, pc3))
               /\ Good(FreeThree(free_list, allocated_list, pa, pc3, pb))
               /\ Good(FreeThree(free_list, allocated_list, pb, pa, pc3))
               /\ Good(FreeThree(free_list, allocated_list, pb, pc3, pa))
               /\ Good(FreeThree(free_list, allocated_list, pc3, pa, pb))
               /\ Good(FreeThree(free_list, allocated_list, pc3, pb, pa))

\* three successive allocs left three adjacent live blocks before a free block
ThreeAdjacentLive ==
    /\ last.op = "alloc" /\ last.path = "ok"
    /\ Len(allocated_list) >= 3
    /\ AdjacentTriple(allocated_list, 3, 2, 1)
    /\ free_list # <<>>

\* C8: a second free of a pointer that was just freed is rejected: both lists
\* after it are the lists after the first free.
DoubleFreeRejected ==
    (last.op = "free" /\ last.path \in {"ok", "nomem"}) =>
        \A ok \in BOOLEAN :
            LET r == FreeBody(memory_pool, pool_size, free_list, allocated_list,
                              last.ptr, ok)
            IN /\ r.path \in {"notfound", "bounds"}
               /\ r.fl = free_list
               /\ r.al = allocated_list

\* a free that returned a block to the free list while others stay allocated
FreedOneOfSeveral ==
    /\ last.op = "free" /\ last.path = "ok"
    /\ allocated_list # <<>>

\* ptr is the start address of a block of al
LiveStart(al, ptr) == \E i \in 1..Len(al) : al[i].start = ptr

\* the recorded size of the live block of al that starts at ptr
LiveSize(al, ptr) ==
    al[CHOOSE i \in 1..Len(al) : al[i].start = ptr].size

\* C9: free(ptr) and resize(ptr, n > 0) with a pointer that is not the start
\* of a live allocation change neither list, and resize returns null.
InvalidPointerIgnored ==
    /\ (last.op = "free" /\ ~LiveStart(last.al, last.ptr)) =>
          (free_list = last.fl /\ allocated_list = last.al)
    /\ (/\ last.op = "resize" /\ last.ptr # NULL /\ last.size > 0
        /\ ~LiveStart(last.al, last.ptr)) =>
          (free_list = last.fl /\ allocated_list = last.al /\ last.ret = NULL)

\* a resize with a pointer into the interior of a live block
ResizeInteriorPointer ==
    /\ last.op = "resize" /\ last.size > 0
    /\ \E i \in 1..Len(allocated_list) :
          /\ allocated_list[i].start < last.ptr
          /\ last.ptr < allocated_list[i].start + allocated_list[i].size

\* a resize that returned from its growth branch moved the block: the new
\* descriptor has the requested size, the old block is gone from the
\* allocated list and its first old bytes are found at the new address
ResizeMovedBlock ==
    (last.op = "resize" /\ last.path = "moved") =>
        LET old == LiveSize(last.al, last.ptr) IN
        /\ last.ret # NULL /\ last.ret # last.ptr
        /\ \E i \in 1..Len(allocated_list) :
              allocated_list[i] = Blk(last.ret, last.size)
        /\ ~LiveStart(allocated_list, last.ptr)
        /\ \A k \in 0..(old - 1) : mem[last.ret + k] = mem[last.ptr + k]

\* a resize that moved a block whose first byte the client had set
ResizeMovedPattern ==
    /\ last.op = "resize" /\ last.path = "moved"
    /\ mem[last.ptr] = 1 /\ mem[last.ret] = 1

\* C10: resize(ptr, n) on a live block of size old < n, when a free block of
\* size >= n exists, returns a new address whose allocated descriptor has size
\* n, returns the old block to the free list, and the first old bytes at the
\* new address equal the bytes that were at the old address.
ResizeGrowMoves ==
    /\ \A t \in Threads :
          (pc[t] = "blocked" /\ Fitting(loc[t].fl, loc[t].size) # {}) => FALSE
    /\ (/\ last.op = "resize" /\ last.ptr # NULL /\ last.size > 0
        /\ LiveStart(last.al, last.ptr)
        /\ LiveSize(last.al, last.ptr) < last.size
        /\ Fitting(last.fl, last.size) # {}) =>
          LET old == LiveSize(last.al, last.ptr) IN
          /\ last.ret # NULL /\ last.ret # last.ptr
          /\ \E i \in 1..Len(allocated_list) :
                allocated_list[i] = Blk(last.ret, last.size)
          /\ ~LiveStart(allocated_list, last.ptr)
          /\ \E i \in 1..Len(free_list) :
                (last.ptr..(last.ptr + old - 1)) \subseteq Range(free_list[i])
          /\ \A k \in 0..(old - 1) : mem[last.ret + k] = mem[last.ptr + k]

ResizeDegenerateCases ==
    /\ (last.op = "resize" /\ last.ptr = NULL) =>
          LET r == AllocBody(memory_pool, last.fl, last.al, last.size,
                             last.path # "nomem")
          IN /\ last.ret = r.ret
             /\ free_list = r.fl
             /\ allocated_list = r.al
    /\ (last.op = "resize" /\ last.ptr # NULL /\ last.size = 0) =>
          LET r == FreeBody(memory_pool, pool_size, last.fl, last.al,
                            last.ptr, last.path # "nomem")
          IN /\ last.ret = NULL
             /\ free_list = r.fl
             /\ allocated_list = r.al

\* a resize(ptr, 0) that released one of several live blocks
ResizeToZeroFreed ==
    /\ last.op = "resize" /\ last.ptr # NULL /\ last.size = 0
    /\ LiveStart(last.al, last.ptr)
    /\ ~LiveStart(allocated_list, last.ptr)
    /\ allocated_list # <<>>
    /\ Len(free_list) < Len(last.fl) + 1

\* a resize(NULL, n) that allocated by splitting a free block
ResizeNullAllocated ==
    /\ last.op = "resize" /\ last.ptr = NULL /\ last.ret # NULL
    /\ Len(allocated_list) = Len(last.al) + 1
    /\ Len(free_list) = Len(last.fl)

\* ptr starts a live block of al of fewer than size bytes and no free block
\* of fl can hold size bytes
NoRoomToGrow(fl, al, ptr, size) ==
    /\ ptr # NULL /\ size > 0
    /\ LiveStart(al, ptr)
    /\ LiveSize(al, ptr) < size
    /\ Fitting(fl, size) = {}

\* a resize that returned from its growth branch without a fitting free
\* block returned NULL and left both lists as they were
ResizeGrowFailedCleanly ==
    (last.op = "resize" /\ NoRoomToGrow(last.fl, last.al, last.ptr, last.size)) =>
        /\ last.ret = NULL
        /\ free_list = last.fl
        /\ allocated_list = last.al
        /\ LiveStart(allocated_list, last.ptr)

\* a resize that returned NULL for lack of a fitting free block
ResizeGrowRefused ==
    /\ last.op = "resize" /\ last.ret = NULL
    /\ NoRoomToGrow(last.fl, last.al, last.ptr, last.size)

\* C13: when resize(ptr, n) must grow a live block and no free block of size
\* >= n exists, the call returns null, the original block is still in the
\* allocated list with its address and size, and the free list is unchanged.
ResizeGrowFailsWithNull ==
    /\ \A t \in Threads :
          (/\ pc[t] = "blocked"
           /\ NoRoomToGrow(loc[t].fl, loc[t].al, loc[t].ptr, loc[t].size)) => FALSE
    /\ ResizeGrowFailedCleanly

\* C14: init(size) called in the Uninitialized state, at program start or
\* after a deinit, makes the pool Active with a free list of exactly one block
\* (start = pool_base, size = size) and an empty allocated list.
InitSeedsPool ==
    (last.op = "init" /\ last.mp = NULL /\ ~exited) =>
        /\ memory_pool # NULL
        /\ pool_size = last.size
        /\ free_list = <<Blk(memory_pool, last.size)>>
        /\ allocated_list = <<>>

\* an init that returned with a fresh pool
InitMadeActive ==
    /\ last.op = "init" /\ last.mp = NULL
    /\ Active /\ ~exited
    /\ Len(free_list) = 1 /\ allocated_list = <<>>

\* C15: init(size) called while a pool is already Active is a no-op for any
\* size: pool base, pool size, free list and allocated list are unchanged and
\* the process is not aborted.
InitWhileActiveNoOp ==
    (last.op = "init" /\ last.mp # NULL) =>
        /\ memory_pool = last.mp /\ pool_size = last.ps
        /\ free_list = last.fl /\ allocated_list = last.al
        /\ ~exited

\* an init with another size than that of the pool, which has live blocks
InitAgainOtherSize ==
    /\ last.op = "init" /\ last.mp # NULL
    /\ last.size # last.ps
    /\ last.al # <<>> /\ last.fl # <<>>

\* C16: deinit called in the Active state with any number of outstanding
\* allocations leaves the pool Uninitialized with pool size 0 and both lists
\* empty, and a subsequent init establishes a fresh pool that carries over no
\* block from the previous one.
DeinitThenFreshPool ==
    /\ (last.op = "deinit" /\ last.mp # NULL) => memory_pool = NULL
    /\ (memory_pool = NULL /\ ~exited) =>
          /\ pool_size = 0
          /\ free_list = <<>> /\ allocated_list = <<>>
          /\ \A t \in Threads : loc[t] = NoLoc
    /\ (last.op = "init" /\ last.mp = NULL /\ ~exited) =>
          /\ last.ps = 0 /\ last.fl = <<>> /\ last.al = <<>>
          /\ free_list \o allocated_list = <<Blk(memory_pool, pool_size)>>

\* a deinit of a pool with live blocks and free blocks
DeinitWithOutstanding ==
    /\ last.op = "deinit" /\ last.mp # NULL
    /\ Len(last.al) >= 2 /\ last.fl # <<>>

\* C17: in the Uninitialized state alloc(n) returns null, resize(ptr, n)
\* returns null and free(ptr) returns without effect, for every argument; each
\* leaves the allocator Uninitialized with both lists empty.
UninitializedCallsFail ==
    (last.op \in {"alloc", "free", "resize"} /\ last.mp = NULL) =>
        /\ last.ret = NULL
        /\ memory_pool = NULL /\ pool_size = last.ps
        /\ free_list = <<>> /\ allocated_list = <<>>
        /\ Quiescent /\ mem_mutex = NoOwner

\* a resize in the Uninitialized state with the address a pool starts at
ResizeWhileUninitialized ==
    /\ last.op = "resize" /\ last.mp = NULL
    /\ last.ptr = PoolBase /\ last.size > 0

\* C18: every call of init, alloc, free, resize and deinit eventually
\* returns under fair scheduling: no operation blocks forever on the
\* allocator mutex, and resize does not deadlock on itself when it composes
\* alloc and free to grow a block.
EveryCallReturns ==
    \A t \in Threads : (pc[t] # "idle") ~> (pc[t] = "idle")

\* C19: whenever a public operation (alloc, free, resize, deinit) returns, on
\* the success path or any error path, the calling thread no longer holds the
\* allocator mutex.
MutexReleasedOnReturn ==
    /\ \A t \in Threads : pc[t] = "idle" => mem_mutex # t
    /\ (mem_mutex # NoOwner) =>
          pc[mem_mutex] \in {"resize_alloc", "resize_copy", "resize_free", "blocked"}

\* a resize that returned NULL from its growth branch because the descriptor
\* of the new block could not be reserved
ResizeReturnedFromError ==
    /\ last.op = "resize" /\ last.path = "nomem"
    /\ last.ptr # NULL /\ last.size > 0 /\ last.ret = NULL
    /\ Quiescent /\ mem_mutex = NoOwner

\* C20: for N threads each issuing a sequence of alloc, free and resize calls
\* against one Active pool, every interleaving ends with all threads joined,
\* in a state where the partition invariant and the no-adjacent-free
\* invariant hold and free bytes + allocated bytes = pool_size.
ThreadsEndConsistent ==
    /\ \A t \in Threads : pc[t] # "blocked"
    /\ (Active /\ Quiescent) =>
          /\ Disjoint(free_list \o allocated_list)
          /\ NoAdjacentFree(free_list)
          /\ SumSize(free_list) + SumSize(allocated_list) = pool_size

\* C21: every read or write of the shared pool state (pool pointer, pool
\* size, free list, allocated list) by any public operation, init included,
\* is made while the calling thread holds the allocator mutex, so that no
\* thread interleaves with the partially applied update of another: no call
\* returns while another thread is between two statements of an init.
PoolStateUnderMutex ==
    /\ \A t \in Threads : InInit(t) => mem_mutex = t
    /\ last.op \in {"alloc", "free", "deinit", "init"} =>
          \A t \in Threads : ~InInit(t)

\* an alloc found an Active pool without a free list and returned NULL while
\* the init of another thread was between its statements
AllocInsideInit ==
    /\ last.op = "alloc" /\ last.mp # NULL /\ last.path = "nofit"
    /\ last.fl = <<>> /\ last.al = <<>>
    /\ \E t \in Threads : InInit(t)

\* an init returned after its last statement emptied the allocated list
\* that held the block of an alloc made between its statements
InitDroppedLiveBlock ==
    /\ last.op = "init" /\ last.path = "ok" /\ last.al # <<>>
    /\ Quiescent /\ Active
    /\ SumSize(free_list) + SumSize(allocated_list) < pool_size

\* C22: for a barrier initialised with trip_count = k and used by k threads
\* over repeated rounds, no thread returns from its r-th my_barrier_wait call
\* before all k threads have entered their r-th my_barrier_wait call.
BarrierRoundsHold ==
    (barrier.ready /\ barrier.trip_count = NThreads) =>
        \A t, u \in Threads : waiter[t].returned <= waiter[u].entered

\* the last thread of a round released the threads that waited for it
BarrierTripped ==
    /\ barrier.ready /\ barrier.count = 0
    /\ \E t \in Threads : waiter[t].pc = "woken"
    /\ \A t, u \in Threads : waiter[t].entered = waiter[u].entered

\* index of the lowest-address block of fl that can hold size bytes
LowestFitting(fl, size) ==
    CHOOSE i \in Fitting(fl, size) :
        \A j \in Fitting(fl, size) : fl[i].start <= fl[j].start

\* C23: a successful alloc(n) that selects a free block of size s > n keeps
\* that block's descriptor in place in the free list with start advanced by
\* exactly n and size reduced to s - n, leaves every other free block
\* unchanged, and adds exactly one allocated descriptor (old start, n); when
\* s = n the block is removed from the free list instead.
AllocSplitsOrRemoves ==
    (last.op = "alloc" /\ last.path = "ok") =>
        LET i == LowestFitting(last.fl, last.size)
            b == last.fl[i]
        IN /\ allocated_list = <<Blk(b.start, last.size)>> \o last.al
           /\ b.size > last.size =>
                 /\ Len(free_list) = Len(last.fl)
                 /\ free_list[i] = Blk(b.start + last.size, b.size - last.size)
                 /\ \A j \in 1..Len(last.fl) : j # i => free_list[j] = last.fl[j]
           /\ b.size = last.size =>
                 /\ Len(free_list) = Len(last.fl) - 1
                 /\ \A j \in 1..Len(free_list) :
                       free_list[j] = last.fl[IF j < i THEN j ELSE j + 1]

\* an alloc that passed a smaller free block and took the whole of the next
AllocExactFitInside ==
    /\ last.op = "alloc" /\ last.path = "ok"
    /\ Len(last.fl) >= 2
    /\ last.fl[2] = Blk(last.ret, last.size)
    /\ Len(free_list) = Len(last.fl) - 1

FreeFailureKeepsState ==
    (/\ last.op \in {"free", "resize"} /\ last.path = "nomem"
     /\ last.ptr # NULL /\ last.size = 0
     /\ LiveStart(last.al, last.ptr)) =>
        /\ allocated_list = last.al
        /\ LiveStart(allocated_list, last.ptr)
        /\ LiveSize(allocated_list, last.ptr) = LiveSize(last.al, last.ptr)
        /\ free_list = last.fl
        /\ SumSize(free_list) + SumSize(allocated_list) =
              SumSize(last.fl) + SumSize(last.al)

\* C26: after any sequence of init(size >= 1)/alloc/free/resize calls,
\* including alloc(0) and the free of its result, every descriptor in the
\* free list has size >= 1.
NoEmptyFreeBlock ==
    \A i \in 1..Len(free_list) : free_list[i].size >= 1

\* the free of the result of an alloc(0) while the block at its address is free
FreedEmptyBlock ==
    /\ last.op = "free" /\ last.path = "ok"
    /\ LiveStart(last.al, last.ptr) /\ LiveSize(last.al, last.ptr) = 0
    /\ \E i \in 1..Len(last.fl) : last.fl[i].start = last.ptr

\* C28: while the pool is Active no two descriptors in the allocated list
\* have the same start address: a successful alloc, for any size including 0,
\* never returns the address of a live allocation.
UniqueLiveStarts ==
    Active =>
        \A i, j \in 1..Len(allocated_list) :
            i # j => allocated_list[i].start # allocated_list[j].start

\* C27: no tracking descriptor is leaked on any exit path: at every quiescent
\* point every descriptor that was reserved and not yet released is linked in
\* exactly one of the two lists, and after deinit no descriptor remains
\* reserved.
NoDescriptorLeak ==
    /\ Quiescent => heap.descr = Len(free_list) + Len(allocated_list)
    /\ last.op = "deinit" => heap.descr = 0 /\ heap.pools = {}

\* an alloc whose exact fit unlinked a free descriptor, after a free whose
\* reservation had failed
ExactFitAfterLostBlock ==
    /\ last.op = "alloc" /\ last.path = "ok"
    /\ Len(free_list) = Len(last.fl) - 1
    /\ Quiescent
    /\ SumSize(last.fl) + SumSize(last.al) < pool_size

====
